---- MODULE Spec2Model ----
(***************************************************************************)
(* Model of main.py: a batch tool that resolves a search centre, runs a    *)
(* set of Nearby Search queries with pagination and de-duplication,        *)
(* fetches Place Details per candidate, scores and classifies each         *)
(* candidate with fixed local rules, filters, and writes the result.       *)
(*                                                                         *)
(* Text is a sequence of one-character strings, so that `kw in text` and   *)
(* str.lower() are computed as Python computes them.  Points are counted   *)
(* in thousandths (60.0 points = 60000), so that the rating boost          *)
(* urt/1000*5 and round(x, 2) are exact integer arithmetic.                *)
(***************************************************************************)
EXTENDS Integers, Sequences, FiniteSets, TLC

(* ------------------------------------------------------------------ *)
(* Optional values: dict.get() of a missing key, or a JSON null        *)
(* ------------------------------------------------------------------ *)

\* a text field that is missing or null
NoText == [some |-> FALSE, v |-> <<>>]

\* a text field holding the string s
SomeText(s) == [some |-> TRUE, v |-> s]

\* a number field that is missing or null
NoNum == [some |-> FALSE, v |-> 0]

\* a number field holding n
SomeNum(n) == [some |-> TRUE, v |-> n]

\* `x or ""` for a text field, `x or 0` for a number field
OrDefault(o) == o.v

\* Python truthiness of an optional text: None and "" are both false
Truthy(o) == o.some /\ o.v # <<>>

(* ------------------------------------------------------------------ *)
(* Strings                                                             *)
(* ------------------------------------------------------------------ *)

UpperToLower ==
  ("A" :> "a") @@ ("B" :> "b") @@ ("C" :> "c") @@ ("D" :> "d") @@ ("E" :> "e") @@ ("F" :> "f") @@ ("G" :> "g") @@ ("H" :> "h") @@ ("I" :> "i") @@ ("J" :> "j") @@ ("K" :> "k") @@ ("L" :> "l") @@ ("M" :> "m") @@ ("N" :> "n") @@ ("O" :> "o") @@ ("P" :> "p") @@ ("Q" :> "q") @@ ("R" :> "r") @@ ("S" :> "s") @@ ("T" :> "t") @@ ("U" :> "u") @@ ("V" :> "v") @@ ("W" :> "w") @@ ("X" :> "x") @@ ("Y" :> "y") @@ ("Z" :> "z")

\* str.lower() on one character
LowerChar(c) == IF c \in DOMAIN UpperToLower THEN UpperToLower[c] ELSE c

\* str.lower()
Lower(s) == [i \in 1..Len(s) |-> LowerChar(s[i])]

\* Python's `kw in t` on strings: kw occurs in t as a contiguous substring
Contains(t, kw) ==
  \E i \in 0..(Len(t) - Len(kw)) :
    \A j \in 1..Len(kw) : t[i + j] = kw[j]

(* ------------------------------------------------------------------ *)
(* Taxonomy and keyword tables                                         *)
(* ------------------------------------------------------------------ *)

TIER1_TYPES ==
  {"veterinary_care", "veterinarian", "veterinary_pharmacy",
   "animal_hospital", "emergency_veterinarian_service"}

TIER2_TYPES ==
  {"pet_store", "pet_groomer", "pet_care_service",
   "pet_boarding_service", "pet_trainer", "animal_shelter"}

TIER3_TYPES == {"farm", "animal_husbandry"}

KEYWORD_STRONG ==
  << <<"v","e","t">>,
     <<"v","e","t","e","r","i","n","a","r","y">>,
     <<"v","e","t","e","r","i","n","a","r","i","a","n">>,
     <<"a","n","i","m","a","l">>,
     <<"p","e","t">>,
     <<"c","l","i","n","i","c">>,
     <<"a","n","i","m","a","l"," ","h","o","s","p","i","t","a","l">>,
     <<"s","p","a","y">>,
     <<"n","e","u","t","e","r">>,
     <<"c","a","n","i","n","e">>,
     <<"f","e","l","i","n","e">> >>

booking_tokens ==
  << <<"b","o","o","k">>,
     <<"a","p","p","o","i","n","t","m","e","n","t">>,
     <<"s","c","h","e","d","u","l","e">>,
     <<"o","n","l","i","n","e","-","b","o","o","k","i","n","g">>,
     <<"r","e","s","e","r","v","e">>,
     <<"b","o","o","k","i","n","g">>,
     <<"c","a","l","e","n","d","l","y">>,
     <<"s","e","t","m","o","r","e">>,
     <<"p","a","t","i","e","n","t"," ","p","o","r","t","a","l">>,
     <<"p","o","r","t","a","l">>,
     <<"a","p","p","o","i","n","t","m","e","n","t","s">> >>

\* text_has_keyword(text): some strong keyword occurs in the lowered text
text_has_keyword(text) ==
  IF ~Truthy(text) THEN FALSE
  ELSE LET t == Lower(text.v)
       IN  \E k \in 1..Len(KEYWORD_STRONG) : Contains(t, KEYWORD_STRONG[k])

(* ------------------------------------------------------------------ *)
(* Detail records                                                      *)
(* ------------------------------------------------------------------ *)

\* the {} that details.get("result", {}) yields when there is no result:
\* every res.get(...) on it returns its default
EmptyResult ==
  [place_id |-> "", types |-> {}, name |-> NoText,
   formatted_address |-> NoText, website |-> NoText,
   formatted_phone_number |-> NoText, user_ratings_total |-> NoNum]

\* details.get("result", {})
ResultOf(details) ==
  IF details.kind = "ok" THEN details.result ELSE EmptyResult

\* the fallback built when place_details raises: {"error": str(e), "raw": item}
Placeholder(e, item) == [kind |-> "placeholder", error |-> e, raw |-> item]

(* ------------------------------------------------------------------ *)
(* classify_place                                                      *)
(* ------------------------------------------------------------------ *)

\* the value classify_place returns when no rule matches
NoClass == [tier |-> 0, match |-> "none", matched_types |-> {}]

\* the keyword condition of classify_place: name, address or website
KeywordCondition(res) ==
  \/ text_has_keyword(res.name)
  \/ text_has_keyword(res.formatted_address)
  \/ text_has_keyword(res.website)

\* a classify_place that tries the Tier-2 rule before the Tier-1 rule
classify_place_t2_first(details) ==
  LET res == ResultOf(details)
      types == res.types
      matched_t1 == TIER1_TYPES \cap types
      matched_t2 == TIER2_TYPES \cap types
      matched_t3 == TIER3_TYPES \cap types
  IN  IF matched_t2 # {} /\ KeywordCondition(res)
        THEN [tier |-> 2, match |-> "type+keyword", matched_types |-> matched_t2]
      ELSE IF matched_t1 # {}
        THEN [tier |-> 1, match |-> "type", matched_types |-> matched_t1]
      ELSE IF matched_t3 # {} /\ KeywordCondition(res)
        THEN [tier |-> 3, match |-> "type+keyword", matched_types |-> matched_t3]
      ELSE IF KeywordCondition(res)
        THEN [tier |-> 2, match |-> "keyword", matched_types |-> {}]
      ELSE NoClass

\* classify_place(details): tier, match basis and matched tags, first rule
\* that applies; the text-only rule returns no matched_types key
classify_place(details) ==
  LET res == ResultOf(details)
      types == res.types
      matched_t1 == TIER1_TYPES \cap types
      matched_t2 == TIER2_TYPES \cap types
      matched_t3 == TIER3_TYPES \cap types
  IN  IF matched_t1 # {}
        THEN [tier |-> 1, match |-> "type", matched_types |-> matched_t1]
      ELSE IF matched_t2 # {} /\ KeywordCondition(res)
        THEN [tier |-> 2, match |-> "type+keyword", matched_types |-> matched_t2]
      ELSE IF matched_t3 # {} /\ KeywordCondition(res)
        THEN [tier |-> 3, match |-> "type+keyword", matched_types |-> matched_t3]
      ELSE IF KeywordCondition(res)
        THEN [tier |-> 2, match |-> "keyword", matched_types |-> {}]
      ELSE NoClass

(* ------------------------------------------------------------------ *)
(* score_place (points in thousandths)                                 *)
(* ------------------------------------------------------------------ *)

\* a reason label: the f-string's prefix, the keyword or token it names,
\* and (for the type reason) the tags it joins
Label(kind, tok, tags) == [kind |-> kind, tok |-> tok, tags |-> tags]

PTS_TYPE_PRIMARY == 60000

PTS_TYPE_SECONDARY == 20000

PTS_NAME_KW == 6000

PTS_ADDRESS_KW == 3000

PTS_WEBSITE_KW == 8000

PTS_BOOKING == 15000

PTS_PHONE == 5000

BOOST_CAP == 5000

SCORE_CAP == 100000

\* a type signal that gives "veterinary_care" the secondary weight
TypeSignalWeak(types) ==
  IF "veterinary_care" \in types \/ TIER2_TYPES \cap types # {}
    THEN [pts |-> PTS_TYPE_SECONDARY,
          labels |-> {Label("type", <<>>, TIER2_TYPES \cap types)}]
  ELSE [pts |-> 0, labels |-> {}]

\* the type signal: +60 for "veterinary_care", else +20 for any Tier-2 tag
TypeSignal(types) ==
  IF "veterinary_care" \in types
    THEN [pts |-> PTS_TYPE_PRIMARY,
          labels |-> {Label("type", <<>>, {"veterinary_care"})}]
  ELSE IF TIER2_TYPES \cap types # {}
    THEN [pts |-> PTS_TYPE_SECONDARY,
          labels |-> {Label("type", <<>>, TIER2_TYPES \cap types)}]
  ELSE [pts |-> 0, labels |-> {}]

\* the keyword loop: the keywords (by index) found in a lowered text
KeywordHits(t) == {k \in 1..Len(KEYWORD_STRONG) : Contains(t, KEYWORD_STRONG[k])}

\* the points the keyword loop adds for name, address and website
KeywordPoints(name, address, website) ==
    PTS_NAME_KW * Cardinality(KeywordHits(name))
  + PTS_ADDRESS_KW * Cardinality(KeywordHits(address))
  + PTS_WEBSITE_KW * Cardinality(KeywordHits(website))

\* the labels the keyword loop records
KeywordLabels(name, address, website) ==
       {Label("name_contains", KEYWORD_STRONG[k], {}) : k \in KeywordHits(name)}
  \cup {Label("address_contains", KEYWORD_STRONG[k], {}) : k \in KeywordHits(address)}
  \cup {Label("website_contains", KEYWORD_STRONG[k], {}) : k \in KeywordHits(website)}

\* the booking loop: index of the first token found in the website, 0 if none
FirstBookingToken(website) ==
  LET hits == {b \in 1..Len(booking_tokens) : Contains(website, booking_tokens[b])}
  IN  IF hits = {} THEN 0
      ELSE CHOOSE b \in hits : \A c \in hits : b <= c

\* a booking loop without the break: +15 for every token found
BookingPointsPerToken(website) ==
  PTS_BOOKING *
    Cardinality({b \in 1..Len(booking_tokens) : Contains(website, booking_tokens[b])})

\* the points the booking loop adds: +15 at the first match, then break
BookingPoints(website) ==
  IF FirstBookingToken(website) = 0 THEN 0 ELSE PTS_BOOKING

\* the label the booking loop records
BookingLabels(website) ==
  IF FirstBookingToken(website) = 0 THEN {}
  ELSE {Label("website_book_token", booking_tokens[FirstBookingToken(website)], {})}

\* min(5.0, urt / 1000.0 * 5.0) for urt > 0, else nothing
RatingBoost(urt) ==
  IF urt > 0
    THEN (IF 5 * urt < BOOST_CAP THEN 5 * urt ELSE BOOST_CAP)
    ELSE 0

\* round(x, 2) for x >= 0.  An exact half (x ends in 5 thousandths) has no
\* exact binary form, so which way it goes is the float's: `up` chooses.
Round2(x, up) ==
  LET r == x % 10
  IN  IF r < 5 THEN x - r
      ELSE IF r > 5 THEN x - r + 10
      ELSE IF up THEN x + 5 ELSE x - 5

\* a Clamp that forgets the upper cap
ClampNoCap(score) == IF score < 0 THEN 0 ELSE score

\* max(0.0, min(100.0, score))
Clamp(score) ==
  LET m == IF score < SCORE_CAP THEN score ELSE SCORE_CAP
  IN  IF m > 0 THEN m ELSE 0

\* the sum score_place accumulates before the cap
RawScore(details) ==
  LET res == ResultOf(details)
      name == Lower(OrDefault(res.name))
      address == Lower(OrDefault(res.formatted_address))
      website == Lower(OrDefault(res.website))
  IN    TypeSignal(res.types).pts
      + KeywordPoints(name, address, website)
      + BookingPoints(website)
      + (IF Truthy(res.formatted_phone_number) THEN PTS_PHONE ELSE 0)
      + RatingBoost(OrDefault(res.user_ratings_total))

\* score_place(details): {"score": ..., "reasons": {...}}; fp holds the two
\* float roundings of an exact half (of the score, of the recorded boost)
score_place(details, fp) ==
  LET res == ResultOf(details)
      name == Lower(OrDefault(res.name))
      address == Lower(OrDefault(res.formatted_address))
      website == Lower(OrDefault(res.website))
      urt == OrDefault(res.user_ratings_total)
      labels ==      TypeSignal(res.types).labels
                \cup KeywordLabels(name, address, website)
                \cup BookingLabels(website)
                \cup (IF Truthy(res.formatted_phone_number)
                        THEN {Label("has_phone", <<>>, {})} ELSE {})
                \cup (IF urt > 0
                        THEN {Label("user_ratings_total", <<>>, {})} ELSE {})
      pts(l) ==
        CASE l.kind = "type" -> TypeSignal(res.types).pts
          [] l.kind = "name_contains" -> PTS_NAME_KW
          [] l.kind = "address_contains" -> PTS_ADDRESS_KW
          [] l.kind = "website_contains" -> PTS_WEBSITE_KW
          [] l.kind = "website_book_token" -> PTS_BOOKING
          [] l.kind = "has_phone" -> PTS_PHONE
          [] l.kind = "user_ratings_total" -> Round2(RatingBoost(urt), fp.boost_up)
  IN  [score |-> Round2(Clamp(RawScore(details)), fp.score_up),
       reasons |-> [l \in labels |-> pts(l)]]

(* ------------------------------------------------------------------ *)
(* The inclusion decision of main's detail loop                        *)
(* ------------------------------------------------------------------ *)

STRONG_THRESHOLD == 30000

WEAK_THRESHOLD == 10000

FINAL_THRESHOLD == 20000

\* a final gate that lets a score of exactly 20 through
FinalGateInclusive(final_score) == final_score >= FINAL_THRESHOLD

\* the final gate: `if final_score <= 20.0: continue`
FinalGate(final_score) == ~(final_score <= FINAL_THRESHOLD)

\* a decision that consults the score before the website
KeepIgnoringWebsite(details, fp) ==
  FinalGate(score_place(details, fp).score)

\* whether the loop body reaches detailed_places.append for these details:
\* website required, then the three score branches, then the final gate
Keep(details, fp) ==
  LET website == ResultOf(details).website
      heuristic_score == score_place(details, fp).score
      final_score == heuristic_score
  IN  IF ~Truthy(website) THEN FALSE
      ELSE IF heuristic_score > STRONG_THRESHOLD THEN FinalGate(final_score)
      ELSE IF heuristic_score < WEAK_THRESHOLD THEN FALSE
      ELSE FinalGate(final_score)

\* details_out as appended to detailed_places
DetailsOut(details, fp) ==
  LET score_info == score_place(details, fp)
      res == ResultOf(details)
  IN  [result |-> res,
       analysis |-> classify_place(details),
       heuristic_score |-> score_info.score,
       final_score |-> score_info.score,
       score_reasons |-> score_info.reasons,
       candidate_summary |->
         [place_id |-> res.place_id, name |-> res.name,
          website |-> res.website, types |-> res.types]]

(* ------------------------------------------------------------------ *)
(* Sample texts                                                        *)
(* ------------------------------------------------------------------ *)

NameHappyPaws == <<"H","a","p","p","y"," ","P","a","w","s">>

NameCityVetClinic == <<"C","i","t","y"," ","V","E","T"," ","C","l","i","n","i","c">>

NameAnimalHospital == <<"A","n","i","m","a","l"," ","H","o","s","p","i","t","a","l">>

NameCarpetWorld == <<"C","a","r","p","e","t"," ","W","o","r","l","d">>

AddrMainSt == <<"1"," ","M","a","i","n"," ","S","t">>

AddrVetLane == <<"5"," ","V","e","t"," ","L","a","n","e">>

SitePlain == <<"h","t","t","p",":","/","/","p","a","w","s",".","e","x","a","m","p","l","e">>

SiteVetBook == <<"h","t","t","p","s",":","/","/","C","i","t","y","V","e","t",".","e","x","a","m","p","l","e","/","b","o","o","k">>

SiteAppointments == <<"h","t","t","p",":","/","/","p","a","w","s",".","e","x","a","m","p","l","e","/","a","p","p","o","i","n","t","m","e","n","t","s">>

SitePetPortal == <<"h","t","t","p",":","/","/","p","e","t","c","a","r","e",".","e","x","a","m","p","l","e","/","p","o","r","t","a","l">>

PhoneText == <<"5","5","5">>

(* ------------------------------------------------------------------ *)
(* Bounds and input sets                                               *)
(* ------------------------------------------------------------------ *)

\* number of queries handed to nearby_search
NumQueries == 2

\* most items on one search page
MaxItems == 2

\* most items the search service returns over one run
MaxTotalItems == 3

\* pages per query: `page >= 3`
MAX_PAGES == 3

EXIT_OK == 0

EXIT_NO_LOCATION == 2

EXIT_HTTP_ERROR == 3

EXIT_UNEXPECTED == 4

\* main has not returned yet
RUNNING == -1

\* a raw search item: place_id (missing, empty or set), name, types
Item(pid, name) == [place_id |-> pid, name |-> name, types |-> {"veterinary_care"}]

NoPid == "<missing>"

\* `if not pid`: a missing or empty place_id
PidFalsy(pid) == pid = NoPid \/ pid = ""

ItemSet ==
  {Item(NoPid, "A"), Item("", "A"),
   Item("p1", "A"), Item("p1", "B"), Item("p2", "A")}

\* pages of at most n items
PagesUpTo(n) == UNION {[1..k -> ItemSet] : k \in 0..n}

\* a continuation token in a response: missing, empty, or a token
NoToken == [some |-> FALSE, v |-> ""]

TokenSet == {NoToken, [some |-> TRUE, v |-> ""], [some |-> TRUE, v |-> "tokA"]}

\* `if not next_token`
TokenFalsy(tok) == ~tok.some \/ tok.v = ""

FailureKinds == {"http", "transport", "timeout"}

\* what place_details may raise
DetailFailureKinds == {"http", "timeout"}

\* a details result for place pid
Res(pid, types, name, address, website, phone, urt) ==
  [place_id |-> pid, types |-> types, name |-> name,
   formatted_address |-> address, website |-> website,
   formatted_phone_number |-> phone, user_ratings_total |-> urt]

\* the detail responses the details service may give for place pid
DetailsSet(pid) ==
  {[kind |-> "ok", result |-> r] : r \in
    {Res(pid, {"veterinary_care"}, SomeText(NameCityVetClinic), SomeText(AddrVetLane),
         SomeText(SiteVetBook), SomeText(PhoneText), SomeNum(4000)),
     Res(pid, {"veterinary_care"}, SomeText(NameCityVetClinic), SomeText(AddrVetLane),
         NoText, SomeText(PhoneText), SomeNum(4000)),
     Res(pid, {"pet_store"}, SomeText(NameHappyPaws), SomeText(AddrMainSt),
         SomeText(SitePlain), NoText, NoNum),
     Res(pid, {"pet_store"}, SomeText(NameHappyPaws), SomeText(AddrMainSt),
         SomeText(SitePlain), SomeText(PhoneText), NoNum),
     Res(pid, {"restaurant"}, SomeText(NameHappyPaws), SomeText(AddrMainSt),
         SomeText(SitePlain), SomeText(PhoneText), SomeNum(1)),
     Res(pid, {"restaurant"}, SomeText(NameCarpetWorld), SomeText(AddrMainSt),
         SomeText(SitePlain), SomeText(PhoneText), NoNum)}}

\* the two ways an exact half may round
FpSet == [score_up : BOOLEAN, boost_up : BOOLEAN]

FpDefault == [score_up |-> FALSE, boost_up |-> FALSE]

(* ------------------------------------------------------------------ *)
(* State                                                               *)
(* ------------------------------------------------------------------ *)

VARIABLES
  pc,             \* where main is: "start", "search", "returning", "details",
                  \* "write", "done"
  args,           \* --lat / --lng as parsed
  loc,            \* what get_ip_location returned, if it was called
  center,         \* lat, lng in use
  exit_code,      \* main's return value
  qi,             \* index of the query being run
  page,           \* nearby_search's page counter
  params,         \* the params of the next search request
  results_by_id,  \* the insertion-ordered dict, as its list of values
  requests,       \* search requests sent, per query
  sleeps,         \* time.sleep(2) calls, per query
  log,            \* every item served to the running nearby_search, in order
  raw_results,    \* nearby_search's return value
  fetched,        \* the details object of each candidate handled so far
  detailed_places,\* the candidates that passed the filter
  output,         \* what has been written
  u_pc,           \* function harness: "input", "scored", "decided", "classified"
  u_details,      \* function harness: the details under test
  u_fp,           \* function harness: the float roundings
  u_out           \* function harness: score_info, kept, tier_info

pipeVars ==
  <<pc, args, loc, center, exit_code, qi, page, params, results_by_id,
    requests, sleeps, log, raw_results, fetched, detailed_places, output>>

unitVars == <<u_pc, u_details, u_fp, u_out>>

vars == <<pipeVars, unitVars>>

(* ------------------------------------------------------------------ *)
(* get_ip_location and nearby_search helpers                           *)
(* ------------------------------------------------------------------ *)

\* what one geolocation service may answer: a failure, a body with
\* latitude/longitude, a body with loc, or a body with neither
GeoOutcomes == {"error", "latlon", "loc", "neither"}

NUM_GEO_SERVICES == 2

NotCalled == [called |-> FALSE, found |-> FALSE, lat |-> 0, lng |-> 0]

\* get_ip_location(): the first service that answers with a position, or None
get_ip_location(outcomes) ==
  LET good == {k \in 1..Len(outcomes) : outcomes[k] \in {"latlon", "loc"}}
  IN  IF good = {} THEN [called |-> TRUE, found |-> FALSE, lat |-> 0, lng |-> 0]
      ELSE [called |-> TRUE, found |-> TRUE, lat |-> 41, lng |-> -73]

\* a lookup test that accepts one explicit coordinate
NeedsLookupBoth(a) == ~a.lat.some /\ ~a.lng.some

\* `args.lat is None or args.lng is None`
NeedsLookup(a) == ~a.lat.some \/ ~a.lng.some

\* the place_ids held by a list of items
Pids(items) == {items[k].place_id : k \in 1..Len(items)}

\* insertion that lets a later duplicate replace the stored item
InsertLastWins(dict, item) ==
  IF PidFalsy(item.place_id) THEN dict
  ELSE IF item.place_id \in Pids(dict)
    THEN [k \in 1..Len(dict) |->
            IF dict[k].place_id = item.place_id THEN item ELSE dict[k]]
  ELSE Append(dict, item)

\* one iteration of the item loop: skip a falsy place_id, keep the first seen
Insert(dict, item) ==
  IF PidFalsy(item.place_id) THEN dict
  ELSE IF item.place_id \in Pids(dict) THEN dict
  ELSE Append(dict, item)

RECURSIVE Merge(_, _)
\* the item loop over one page
Merge(dict, items) ==
  IF items = <<>> THEN dict
  ELSE Merge(Insert(dict, Head(items)), Tail(items))

\* the params of the first request of query q
QueryParams(q) == [kind |-> "query", q |-> q, pagetoken |-> ""]

\* the params of a continuation request
PageParams(tok) == [kind |-> "page", q |-> 0, pagetoken |-> tok]

\* a loop exit test with the cap off by one
LastPageLate(next_token, p) == TokenFalsy(next_token) \/ p > MAX_PAGES

\* `if not next_token or page >= 3: break`
LastPage(next_token, p) == TokenFalsy(next_token) \/ p >= MAX_PAGES

NoOutput == [json |-> FALSE, csv |-> FALSE, places |-> <<>>]

\* the flat record of one kept candidate (the fields the scoring feeds)
Flat(d) ==
  [business_name |-> OrDefault(d.result.name),
   address |-> OrDefault(d.result.formatted_address),
   phone |-> OrDefault(d.result.formatted_phone_number),
   website |-> OrDefault(d.result.website),
   total_reviews |-> OrDefault(d.result.user_ratings_total)]

(* ------------------------------------------------------------------ *)
(* Initial state                                                       *)
(* ------------------------------------------------------------------ *)

ArgSet ==
  {[lat |-> SomeNum(0), lng |-> SomeNum(-74)],
   [lat |-> SomeNum(0), lng |-> NoNum],
   [lat |-> NoNum, lng |-> NoNum]}

NoCenter == [lat |-> 0, lng |-> 0]

UnitIdle ==
  /\ u_pc = "idle"
  /\ u_details = Placeholder("", Item(NoPid, "A"))
  /\ u_fp = FpDefault
  /\ u_out = [score_info |-> [score |-> 0, reasons |-> <<>>],
              kept |-> FALSE, tier_info |-> NoClass]

PipeStart(a) ==
  /\ pc = "start"
  /\ args = a
  /\ loc = NotCalled
  /\ center = NoCenter
  /\ exit_code = RUNNING
  /\ qi = 0
  /\ page = 0
  /\ params = QueryParams(0)
  /\ results_by_id = <<>>
  /\ requests = [q \in 1..NumQueries |-> 0]
  /\ sleeps = [q \in 1..NumQueries |-> 0]
  /\ log = <<>>
  /\ raw_results = <<>>
  /\ fetched = <<>>
  /\ detailed_places = <<>>
  /\ output = NoOutput

Init ==
  /\ \E a \in ArgSet : PipeStart(a)
  /\ UnitIdle

(* ------------------------------------------------------------------ *)
(* main: location                                                      *)
(* ------------------------------------------------------------------ *)

\* entering nearby_search: results_by_id = {}, first query, page = 0
EnterSearch ==
  /\ pc' = "search"
  /\ qi' = 1
  /\ page' = 0
  /\ params' = QueryParams(1)

\* explicit coordinates given: no lookup
UseArgs ==
  /\ pc = "start"
  /\ ~NeedsLookup(args)
  /\ center' = [lat |-> args.lat.v, lng |-> args.lng.v]
  /\ EnterSearch
  /\ UNCHANGED <<args, loc, exit_code, results_by_id, requests, sleeps, log,
                 raw_results, fetched, detailed_places, output, unitVars>>

\* lookup answered with a position
LookupFound ==
  /\ pc = "start"
  /\ NeedsLookup(args)
  /\ \E outcomes \in [1..NUM_GEO_SERVICES -> GeoOutcomes] :
       /\ get_ip_location(outcomes).found
       /\ loc' = get_ip_location(outcomes)
       /\ center' = [lat |-> loc'.lat, lng |-> loc'.lng]
  /\ EnterSearch
  /\ UNCHANGED <<args, exit_code, results_by_id, requests, sleeps, log,
                 raw_results, fetched, detailed_places, output, unitVars>>

\* lookup answered None: `return 2`
LookupFailed ==
  /\ pc = "start"
  /\ NeedsLookup(args)
  /\ \E outcomes \in [1..NUM_GEO_SERVICES -> GeoOutcomes] :
       /\ ~get_ip_location(outcomes).found
       /\ loc' = get_ip_location(outcomes)
  /\ pc' = "done"
  /\ exit_code' = EXIT_NO_LOCATION
  /\ UNCHANGED <<args, center, qi, page, params, results_by_id, requests,
                 sleeps, log, raw_results, fetched, detailed_places, output,
                 unitVars>>

(* ------------------------------------------------------------------ *)
(* nearby_search: one action per page request                          *)
(* ------------------------------------------------------------------ *)

\* what the search leaves unchanged in the rest of main
SearchFrame == UNCHANGED <<args, loc, center, fetched, detailed_places, output, unitVars>>

\* a continuation that forgets the sleep before the next request
SearchPageMoreNoSleep ==
  /\ pc = "search"
  /\ \E items \in PagesUpTo(MaxItems), next_token \in TokenSet :
       /\ Len(log) + Len(items) <= MaxTotalItems
       /\ ~LastPage(next_token, page + 1)
       /\ page' = page + 1
       /\ requests' = [requests EXCEPT ![qi] = @ + 1]
       /\ log' = log \o items
       /\ results_by_id' = Merge(results_by_id, items)
       /\ params' = PageParams(next_token.v)
  /\ UNCHANGED <<pc, qi, exit_code, raw_results, sleeps>>
  /\ SearchFrame

\* the request is answered with a page that is not the query's last:
\* merge it, sleep, and continue with the token
SearchPageMore ==
  /\ pc = "search"
  /\ \E items \in PagesUpTo(MaxItems), next_token \in TokenSet :
       /\ Len(log) + Len(items) <= MaxTotalItems
       /\ ~LastPage(next_token, page + 1)
       /\ page' = page + 1
       /\ requests' = [requests EXCEPT ![qi] = @ + 1]
       /\ log' = log \o items
       /\ results_by_id' = Merge(results_by_id, items)
       /\ sleeps' = [sleeps EXCEPT ![qi] = @ + 1]
       /\ params' = PageParams(next_token.v)
  /\ UNCHANGED <<pc, qi, exit_code, raw_results>>
  /\ SearchFrame

\* the request is answered with the last page of a query that is not the
\* last query: merge it and start the next query
SearchPageNextQuery ==
  /\ pc = "search"
  /\ qi < NumQueries
  /\ \E items \in PagesUpTo(MaxItems), next_token \in TokenSet :
       /\ Len(log) + Len(items) <= MaxTotalItems
       /\ LastPage(next_token, page + 1)
       /\ requests' = [requests EXCEPT ![qi] = @ + 1]
       /\ log' = log \o items
       /\ results_by_id' = Merge(results_by_id, items)
  /\ qi' = qi + 1
  /\ page' = 0
  /\ params' = QueryParams(qi + 1)
  /\ UNCHANGED <<pc, exit_code, sleeps, raw_results>>
  /\ SearchFrame

\* the request is answered with the last page of the last query: merge it
\* and leave both loops
SearchPageLast ==
  /\ pc = "search"
  /\ qi = NumQueries
  /\ \E items \in PagesUpTo(MaxItems), next_token \in TokenSet :
       /\ Len(log) + Len(items) <= MaxTotalItems
       /\ LastPage(next_token, page + 1)
       /\ page' = page + 1
       /\ requests' = [requests EXCEPT ![qi] = @ + 1]
       /\ log' = log \o items
       /\ results_by_id' = Merge(results_by_id, items)
  /\ pc' = "returning"
  /\ UNCHANGED <<qi, params, exit_code, sleeps, raw_results>>
  /\ SearchFrame

\* `return list(results_by_id.values())`: main binds raw_results, and the
\* locals of nearby_search (with the record of what it was served) are gone
SearchReturn ==
  /\ pc = "returning"
  /\ raw_results' = results_by_id
  /\ pc' = IF raw_results' = <<>> THEN "write" ELSE "details"
  /\ results_by_id' = <<>>
  /\ log' = <<>>
  /\ qi' = 0
  /\ page' = 0
  /\ params' = QueryParams(0)
  /\ UNCHANGED <<exit_code, requests, sleeps>>
  /\ SearchFrame

\* the exit status main gives an exception raised inside its try block
ExitFor(kind) == IF kind = "http" THEN EXIT_HTTP_ERROR ELSE EXIT_UNEXPECTED

\* the request fails (raise_for_status, a transport error, a timeout):
\* nothing in nearby_search catches it, main's handlers return 3 or 4
SearchPageFail ==
  /\ pc = "search"
  /\ \E kind \in FailureKinds :
       exit_code' = ExitFor(kind)
  /\ page' = page + 1
  /\ requests' = [requests EXCEPT ![qi] = @ + 1]
  /\ pc' = "done"
  /\ UNCHANGED <<qi, params, results_by_id, sleeps, log, raw_results>>
  /\ SearchFrame

(* ------------------------------------------------------------------ *)
(* main: the detail loop, one action per candidate                     *)
(* ------------------------------------------------------------------ *)

\* the loop body after `details` is bound: filter, then append or continue.
\* fetched records the details and, when score_place was reached, its score
Process(details, fp) ==
  /\ fetched' = Append(fetched,
       [details |-> details,
        score |-> IF Truthy(ResultOf(details).website)
                    THEN score_place(details, fp).score ELSE -1])
  /\ detailed_places' =
       IF Keep(details, fp)
         THEN Append(detailed_places, DetailsOut(details, fp))
         ELSE detailed_places
  /\ pc' = IF Len(fetched') = Len(raw_results) THEN "write" ELSE "details"
  /\ UNCHANGED <<args, loc, center, exit_code, qi, page, params, results_by_id,
                 requests, sleeps, log, raw_results, output, unitVars>>

\* place_details returns a record for the candidate
FetchDetailOk ==
  /\ pc = "details"
  /\ LET item == raw_results[Len(fetched) + 1]
     IN  \E details \in DetailsSet(item.place_id), fp \in FpSet :
           Process(details, fp)

\* a detail failure that escapes the loop to main's handlers
FetchDetailFailAborts ==
  /\ pc = "details"
  /\ \E kind \in DetailFailureKinds : exit_code' = ExitFor(kind)
  /\ pc' = "done"
  /\ UNCHANGED <<args, loc, center, qi, page, params, results_by_id, requests,
                 sleeps, log, raw_results, fetched, detailed_places, output,
                 unitVars>>

\* place_details raises: the except branch substitutes the placeholder
FetchDetailFail ==
  /\ pc = "details"
  /\ LET item == raw_results[Len(fetched) + 1]
     IN  \E kind \in DetailFailureKinds :
           Process(Placeholder(kind, item), FpDefault)

(* ------------------------------------------------------------------ *)
(* main: writing the output                                            *)
(* ------------------------------------------------------------------ *)

\* the flat records of the kept candidates
Simplified == [k \in 1..Len(detailed_places) |-> Flat(detailed_places[k])]

WriteFrame ==
  UNCHANGED <<args, loc, center, qi, page, params, results_by_id, requests,
              sleeps, log, raw_results, fetched, detailed_places, unitVars>>

\* JSON and CSV both written: `return 0`
WriteBoth ==
  /\ pc = "write"
  /\ output' = [json |-> TRUE, csv |-> TRUE, places |-> Simplified]
  /\ exit_code' = EXIT_OK
  /\ pc' = "done"
  /\ WriteFrame

\* the CSV write raises: caught and reported, still `return 0`
WriteCsvFails ==
  /\ pc = "write"
  /\ output' = [json |-> TRUE, csv |-> FALSE, places |-> Simplified]
  /\ exit_code' = EXIT_OK
  /\ pc' = "done"
  /\ WriteFrame

\* preparing the directories or writing the JSON raises: `return 4`
WriteJsonFails ==
  /\ pc = "write"
  /\ output' = output
  /\ exit_code' = EXIT_UNEXPECTED
  /\ pc' = "done"
  /\ WriteFrame

Next ==
  \/ UseArgs
  \/ LookupFound
  \/ LookupFailed
  \/ SearchPageMore
  \/ SearchPageNextQuery
  \/ SearchPageLast
  \/ SearchReturn
  \/ SearchPageFail
  \/ FetchDetailOk
  \/ FetchDetailFail
  \/ WriteBoth
  \/ WriteCsvFails
  \/ WriteJsonFails

Spec == Init /\ [][Next]_vars

(* ------------------------------------------------------------------ *)
(* Function harness: score_place, the decision, classify_place         *)
(* applied to one details object drawn from a wide input set           *)
(* ------------------------------------------------------------------ *)

TypeSamples ==
  {{}, {"restaurant"}, {"veterinary_care"}, {"veterinarian"},
   {"animal_hospital", "pet_store"}, {"pet_store"},
   {"pet_store", "pet_groomer"}, {"farm"}, {"pet_store", "farm"},
   {"veterinary_care", "farm"}}

NameSamples ==
  {NoText, SomeText(NameHappyPaws), SomeText(NameCityVetClinic),
   SomeText(NameAnimalHospital), SomeText(NameCarpetWorld)}

AddressSamples == {NoText, SomeText(AddrMainSt), SomeText(AddrVetLane)}

WebsiteSamples ==
  {NoText, SomeText(<<>>), SomeText(SitePlain), SomeText(SiteVetBook),
   SomeText(SiteAppointments), SomeText(SitePetPortal)}

PhoneSamples == {NoText, SomeText(PhoneText)}

RatingSamples == {NoNum, SomeNum(0), SomeNum(1), SomeNum(500), SomeNum(4000)}

UnitInputs ==
  {[kind |-> "ok", result |-> Res("p1", t, n, a, w, p, u)] :
     t \in TypeSamples, n \in NameSamples, a \in AddressSamples,
     w \in WebsiteSamples, p \in PhoneSamples, u \in RatingSamples}
  \cup {Placeholder("http", Item("p1", "A"))}

InitUnit ==
  /\ PipeStart([lat |-> SomeNum(0), lng |-> SomeNum(-74)])
  /\ u_pc = "input"
  /\ u_details \in UnitInputs
  /\ u_fp \in FpSet
  /\ u_out = [score_info |-> [score |-> 0, reasons |-> <<>>],
              kept |-> FALSE, tier_info |-> NoClass]

\* score_info = score_place(details)
CallScorePlace ==
  /\ u_pc = "input"
  /\ u_out' = [u_out EXCEPT !.score_info = score_place(u_details, u_fp)]
  /\ u_pc' = "scored"
  /\ UNCHANGED <<u_details, u_fp, pipeVars>>

\* the loop body's filter on these details
CallKeep ==
  /\ u_pc = "scored"
  /\ u_out' = [u_out EXCEPT !.kept = Keep(u_details, u_fp)]
  /\ u_pc' = "decided"
  /\ UNCHANGED <<u_details, u_fp, pipeVars>>

\* tier_info = classify_place(details)
CallClassifyPlace ==
  /\ u_pc = "decided"
  /\ u_out' = [u_out EXCEPT !.tier_info = classify_place(u_details)]
  /\ u_pc' = "classified"
  /\ UNCHANGED <<u_details, u_fp, pipeVars>>

NextUnit == CallScorePlace \/ CallKeep \/ CallClassifyPlace

SpecUnit == InitUnit /\ [][NextUnit]_vars

(* ------------------------------------------------------------------ *)
(* Properties                                                          *)
(* ------------------------------------------------------------------ *)

\* the position of the first item of lg that carries place_id pid
FirstIndex(pid, lg) ==
  CHOOSE i \in 1..Len(lg) :
    /\ lg[i].place_id = pid
    /\ \A j \in 1..(i - 1) : lg[j].place_id # pid

\* res is the first-seen de-duplication of lg
IsFirstSeenDedup(res, lg) ==
  /\ Pids(res) = {p \in Pids(lg) : ~PidFalsy(p)}
  /\ \A j, k \in 1..Len(res) : j # k => res[j].place_id # res[k].place_id
  /\ \A k \in 1..Len(res) : res[k] = lg[FirstIndex(res[k].place_id, lg)]
  /\ \A j, k \in 1..Len(res) :
       j < k => FirstIndex(res[j].place_id, lg) < FirstIndex(res[k].place_id, lg)

\* C1: whatever pages were served, the list nearby_search returns holds
\* exactly one record per distinct non-empty place_id served, that record is
\* the first one served with that id, and the list is in first-seen order.
C1_FirstSeenDedup ==
  [][(pc = "returning" /\ pc' # "returning")
       => IsFirstSeenDedup(raw_results', log)]_vars

\* C1 witness: about to return two records after being served a later
\* duplicate that differs from the first record of its place_id
C1_Witness ==
  /\ pc = "returning"
  /\ Len(results_by_id) = 2
  /\ \E i, j \in 1..Len(log) :
       i < j /\ log[i].place_id = log[j].place_id /\ log[i] # log[j]
             /\ ~PidFalsy(log[i].place_id)

\* C2: a failed page request does not abort the other queries: once the
\* run (having resolved a location) has ended, every query was executed.
C2_FailureIsolated ==
  (pc = "done" /\ exit_code # EXIT_NO_LOCATION)
    => \A q \in 1..NumQueries : requests[q] >= 1

\* candidate i of raw_results has an entry in detailed_places
InPlaces(i) ==
  \E k \in 1..Len(detailed_places) :
    detailed_places[k].result.place_id = raw_results[i].place_id

\* the indices of the candidates handled so far whose detail fetch failed
FailedFetches == {i \in 1..Len(fetched) : fetched[i].details.kind = "placeholder"}

\* C3: a failed detail fetch does not abort the run: the candidate becomes
\* a placeholder (error marker plus its raw item) with no website and no
\* category tags and is absent from the output; the loop still reaches
\* every candidate, and a later candidate is kept exactly when its own
\* details pass the filter.
C3_DetailFailureIsolated ==
  /\ \A i \in FailedFetches :
       /\ fetched[i].details = Placeholder(fetched[i].details.error, raw_results[i])
       /\ ~Truthy(ResultOf(fetched[i].details).website)
       /\ ResultOf(fetched[i].details).types = {}
       /\ ~InPlaces(i)
       /\ \A j \in (i + 1)..Len(fetched) :
            fetched[j].details.kind = "ok" =>
              (InPlaces(j) <=> (/\ Truthy(fetched[j].details.result.website)
                                /\ fetched[j].score > FINAL_THRESHOLD))
  /\ (FailedFetches # {} /\ pc = "done") => exit_code # EXIT_HTTP_ERROR
  /\ pc \in {"write", "done"} => Len(fetched) = Len(raw_results)

\* C3 witness: the first fetch failed, the second succeeded and was kept,
\* and the run ended normally
C3_Witness ==
  /\ pc = "done"
  /\ exit_code = EXIT_OK
  /\ Len(fetched) = 2
  /\ FailedFetches = {1}
  /\ InPlaces(2)
  /\ Len(output.places) = 1

\* C4: a candidate is in the output exactly when its details carry a
\* non-empty website and its score is strictly above 20; what is written
\* is the flat form of exactly those candidates, in order.
C4_KeepIffWebsiteAndScore ==
  /\ \A i \in 1..Len(fetched) :
       InPlaces(i) <=> (/\ Truthy(ResultOf(fetched[i].details).website)
                        /\ fetched[i].score > FINAL_THRESHOLD)
  /\ \A k \in 1..Len(detailed_places) :
       \E i \in 1..Len(fetched) :
         /\ detailed_places[k].result = ResultOf(fetched[i].details)
         /\ detailed_places[k].final_score = fetched[i].score
  /\ output.json => output.places = Simplified

\* C4 witness: output written with one candidate kept, the other having a
\* website and a score in [10, 20] and being absent
C4_Witness ==
  /\ output.json
  /\ Len(fetched) = 2
  /\ Len(output.places) = 1
  /\ \E i \in 1..2 :
       /\ Truthy(ResultOf(fetched[i].details).website)
       /\ fetched[i].score >= WEAK_THRESHOLD
       /\ fetched[i].score <= FINAL_THRESHOLD
       /\ ~InPlaces(i)

\* no search request was sent
NoRequests == \A q \in 1..NumQueries : requests[q] = 0

\* C9: when --lat and --lng are not both given and the lookup finds no
\* location, main returns 2 with no search request sent and nothing
\* written; that status differs from the status of an HTTP failure during
\* the API calls, which is returned only after a request was sent.
C9_NoLocationExit ==
  /\ ((~args.lat.some \/ ~args.lng.some) /\ pc # "start" /\ ~loc.found)
       => (/\ pc = "done"
           /\ exit_code = EXIT_NO_LOCATION
           /\ NoRequests
           /\ output = NoOutput)
  /\ exit_code = EXIT_HTTP_ERROR => ~NoRequests
  /\ EXIT_NO_LOCATION # EXIT_HTTP_ERROR
  /\ EXIT_NO_LOCATION # EXIT_OK

\* C9 witness: one coordinate given, the lookup failed, main returned 2
C9_Witness ==
  /\ pc = "done"
  /\ exit_code = EXIT_NO_LOCATION
  /\ args.lat.some
  /\ ~args.lng.some
  /\ loc.called
  /\ ~loc.found

\* the result under test in the function harness
UnitRes == ResultOf(u_details)

\* C5 as first stated: any Tier-1 tag gives the +60 type term, so the
\* score is at least 60.
C5_AnyTier1AtLeast60 ==
  (u_pc # "input" /\ TIER1_TYPES \cap UnitRes.types # {})
    => u_out.score_info.score >= PTS_TYPE_PRIMARY

\* C5: a candidate whose tags include veterinary_care gets the +60 type
\* term, recorded once under the veterinary_care reason, so its score is at
\* least 60 whatever its other attributes.
C5_VeterinaryCareAtLeast60 ==
  (u_pc # "input" /\ "veterinary_care" \in UnitRes.types)
    => /\ u_out.score_info.score >= PTS_TYPE_PRIMARY
       /\ Label("type", <<>>, {"veterinary_care"}) \in DOMAIN u_out.score_info.reasons
       /\ u_out.score_info.reasons[Label("type", <<>>, {"veterinary_care"})]
            = PTS_TYPE_PRIMARY

\* C5 witness: veterinary_care is the only signal and the score is 60
C5_Witness ==
  /\ u_pc = "scored"
  /\ "veterinary_care" \in UnitRes.types
  /\ u_out.score_info.score = PTS_TYPE_PRIMARY
  /\ Cardinality(DOMAIN u_out.score_info.reasons) = 1

\* C6: the score score_place returns lies in [0, 100], and clamping it to
\* [0, 100] again leaves it unchanged.
C6_ScoreInRange ==
  u_pc # "input"
    => /\ u_out.score_info.score >= 0
       /\ u_out.score_info.score <= SCORE_CAP
       /\ Clamp(u_out.score_info.score) = u_out.score_info.score

\* C6 witness: the contributions add up to more than 100 and the score is 100
C6_Witness ==
  /\ u_pc = "scored"
  /\ RawScore(u_details) > SCORE_CAP
  /\ u_out.score_info.score = SCORE_CAP

\* a strong keyword occurs in an optional text, case-insensitively
HasStrongKeyword(text) ==
  /\ text.some
  /\ \E k \in 1..Len(KEYWORD_STRONG) : Contains(Lower(text.v), KEYWORD_STRONG[k])

\* C8: classify_place applies its rules in priority order, first match
\* wins: Tier-1 tag -> tier 1 / "type" / the Tier-1 intersection, whatever
\* the text; else Tier-2 tag and keyword -> tier 2 / "type+keyword"; else
\* Tier-3 tag and keyword -> tier 3 / "type+keyword"; else keyword alone ->
\* tier 2 / "keyword"; else absent.
C8_ClassifyPriority ==
  u_pc = "classified" =>
    LET t1 == TIER1_TYPES \cap UnitRes.types
        t2 == TIER2_TYPES \cap UnitRes.types
        t3 == TIER3_TYPES \cap UnitRes.types
        kw == \/ HasStrongKeyword(UnitRes.name)
              \/ HasStrongKeyword(UnitRes.formatted_address)
              \/ HasStrongKeyword(UnitRes.website)
        c == u_out.tier_info
    IN  /\ t1 # {} => (c.tier = 1 /\ c.match = "type" /\ c.matched_types = t1)
        /\ (t1 = {} /\ t2 # {} /\ kw)
             => (c.tier = 2 /\ c.match = "type+keyword" /\ c.matched_types = t2)
        /\ (t1 = {} /\ t2 = {} /\ t3 # {} /\ kw)
             => (c.tier = 3 /\ c.match = "type+keyword" /\ c.matched_types = t3)
        /\ (t1 = {} /\ t2 = {} /\ t3 = {} /\ kw)
             => (c.tier = 2 /\ c.match = "keyword")
        /\ (t1 = {} /\ ~kw) => c = NoClass

\* C8 witness: Tier-1 and Tier-2 tags together with a keyword in the name:
\* the Tier-1 rule wins
C8_Witness ==
  /\ u_pc = "classified"
  /\ TIER1_TYPES \cap UnitRes.types # {}
  /\ TIER2_TYPES \cap UnitRes.types # {}
  /\ HasStrongKeyword(UnitRes.name)
  /\ u_out.tier_info.tier = 1

\* the candidate of C10: website present, exactly one Tier-2 tag, no Tier-1
\* tag, no keyword hit, no booking token, no phone, rating count 0
DeadZoneCandidate ==
  /\ u_details.kind = "ok"
  /\ Truthy(UnitRes.website)
  /\ Cardinality(TIER2_TYPES \cap UnitRes.types) = 1
  /\ TIER1_TYPES \cap UnitRes.types = {}
  /\ ~HasStrongKeyword(UnitRes.name)
  /\ ~HasStrongKeyword(UnitRes.formatted_address)
  /\ ~HasStrongKeyword(UnitRes.website)
  /\ \A b \in 1..Len(booking_tokens) :
       ~Contains(Lower(UnitRes.website.v), booking_tokens[b])
  /\ ~Truthy(UnitRes.formatted_phone_number)
  /\ UnitRes.user_ratings_total.v = 0

\* C10 as first stated: that candidate scores exactly 15 and is excluded.
C10_Scores15Excluded ==
  (u_pc \in {"decided", "classified"} /\ DeadZoneCandidate)
    => (u_out.score_info.score = 15000 /\ ~u_out.kept)

\* C10: that candidate scores exactly 20 (the Tier-2 type term alone) and
\* is excluded, because the final gate keeps only scores above 20.
C10_Scores20Excluded ==
  (u_pc \in {"decided", "classified"} /\ DeadZoneCandidate)
    => (u_out.score_info.score = PTS_TYPE_SECONDARY /\ ~u_out.kept)

\* C10 witness: the filter has run on such a candidate
C10_Witness ==
  /\ u_pc = "decided"
  /\ DeadZoneCandidate
  /\ UnitRes.name.some
  /\ UnitRes.types = {"pet_store"}

\* the search has returned to main
SearchCompleted == pc \in {"details", "write"} \/ (pc = "done" /\ exit_code = EXIT_OK)

\* C7: for every query, whatever the search service does, the aggregator
\* sends at least one and at most 3 page requests, and the aggregation
\* ends after at most 3 x (number of queries) requests.
C7_PageRequestsPerQuery ==
  (pc = "done" /\ exit_code # EXIT_NO_LOCATION)
    => \A q \in 1..NumQueries : requests[q] >= 1 /\ requests[q] <= MAX_PAGES

\* the part of C7 that does not depend on every query being reached: never
\* more than 3 requests for a query, a continuation request only with the
\* token of the previous page and below the cap, one sleep before each
\* continuation, and every query served once the search has returned
PageCap ==
  /\ \A q \in 1..NumQueries : requests[q] <= MAX_PAGES
  /\ pc = "search" => (/\ requests[qi] = page
                       /\ page < MAX_PAGES
                       /\ (page >= 1 <=> params.kind = "page")
                       /\ (params.kind = "page" => params.pagetoken # ""))
  /\ SearchCompleted => \A q \in 1..NumQueries : requests[q] >= 1

\* C11: within a query, every page request after the first is preceded by
\* exactly one sleep taken after the previous page's response; no sleep
\* follows the last page of a query (no token, or the cap reached, or a
\* failed request), and none is taken between two queries.
C11_OneSleepBetweenPages ==
  /\ \A q \in 1..NumQueries :
       IF pc = "search" /\ q = qi
         THEN sleeps[q] = requests[q]
         ELSE sleeps[q] = (IF requests[q] = 0 THEN 0 ELSE requests[q] - 1)
  /\ pc = "search" => (params.kind = "page" <=> sleeps[qi] >= 1)

\* C11 witness: the search has returned; the first query ran to the cap
\* with two sleeps, the last query took one page and no sleep
C11_Witness ==
  /\ SearchCompleted
  /\ requests[1] = MAX_PAGES
  /\ sleeps[1] = MAX_PAGES - 1
  /\ requests[NumQueries] = 1
  /\ sleeps[NumQueries] = 0

\* the booking tokens (by index) that occur in the lowered website of the
\* details under test
UnitBookingHits ==
  {b \in 1..Len(booking_tokens) :
     Contains(Lower(OrDefault(UnitRes.website)), booking_tokens[b])}

\* the booking reasons score_place recorded
UnitBookingReasons ==
  {l \in DOMAIN u_out.score_info.reasons : l.kind = "website_book_token"}

\* what score_place adds apart from the booking term
UnitNonBookingPoints ==
    TypeSignal(UnitRes.types).pts
  + KeywordPoints(Lower(OrDefault(UnitRes.name)),
                  Lower(OrDefault(UnitRes.formatted_address)),
                  Lower(OrDefault(UnitRes.website)))
  + (IF Truthy(UnitRes.formatted_phone_number) THEN PTS_PHONE ELSE 0)
  + RatingBoost(OrDefault(UnitRes.user_ratings_total))

\* C12: the booking term is +15 if the website contains at least one
\* booking token and 0 otherwise, however many tokens match, and it is
\* recorded under exactly one reason, that of the first matching token in
\* list order (under none when no token matches).
C12_BookingOnce ==
  u_pc # "input" =>
    /\ u_out.score_info.score =
         Round2(Clamp(UnitNonBookingPoints
                      + (IF UnitBookingHits = {} THEN 0 ELSE 15000)),
                u_fp.score_up)
    /\ UnitBookingHits = {} => UnitBookingReasons = {}
    /\ UnitBookingHits # {} =>
         /\ Cardinality(UnitBookingReasons) = 1
         /\ \A l \in UnitBookingReasons :
              /\ u_out.score_info.reasons[l] = 15000
              /\ \E b \in UnitBookingHits :
                   /\ l.tok = booking_tokens[b]
                   /\ \A c \in UnitBookingHits : b <= c

\* C12 witness: two tokens occur in the website, one reason is recorded,
\* and the score is below the cap, so that a second +15 would show
C12_Witness ==
  /\ u_pc = "scored"
  /\ Cardinality(UnitBookingHits) >= 2
  /\ Cardinality(UnitBookingReasons) = 1
  /\ u_out.score_info.score = 15000
====
